---- MODULE Spec2Model ----
(***************************************************************************)
(* q2-skani: the skani "triangle" adapter of src/q2_skani/skani.py.        *)
(*                                                                         *)
(*   _construct_triangle_cmd   options mapping -> argument vector          *)
(*   _run_skani                child process -> normal return or error     *)
(*   _process_skani_matrix     tab-separated file -> labelled table        *)
(*   compare_seqs              the three in sequence, in a temporary dir   *)
(*                                                                         *)
(* Python strings are TLA+ strings; str(), ' '.join, Path.stem and the     *)
(* tokenising of the matrix file are computed character by character.      *)
(***************************************************************************)
EXTENDS Integers, Sequences, FiniteSets, TLC

VARIABLES
    pc,             \* position of the operation under way
    \* ---- _construct_triangle_cmd and its caller
    skani_args,     \* the options dict: a sequence of [k, v] in insertion order
    fasta_list,     \* the manifest path (list_file in compare_seqs)
    output_file,    \* the output path
    cmd,            \* the argument vector (<<>> before it is built)
    \* ---- the file system and the child process
    genomes,        \* the files of the input collection, relative to its root
    fs,             \* the files that exist: a set of [path, content]
    proc,           \* what subprocess.run met: [kind, rc, stdout, stderr]
    run_error,      \* the exception _run_skani left with (NoError: none)
    run_count,      \* calls of subprocess.run
    parse_count,    \* calls of _process_skani_matrix
    \* ---- results
    truth,          \* what the tool meant to write: the matrix behind the file
    df,             \* the table _process_skani_matrix returned (NoFrame: none)
    error,          \* the exception the operation raised (NoError: none)
    result          \* the DistanceMatrix compare_seqs returned (NoMatrix: none)

cmdVars  == <<skani_args, fasta_list, output_file, cmd>>
procVars == <<proc, run_error, run_count>>
outVars  == <<df, error, result, parse_count>>

vars == <<pc, skani_args, fasta_list, output_file, cmd, genomes, fs, proc,
          run_error, run_count, parse_count, truth, df, error, result>>

-----------------------------------------------------------------------------
\* Bounds of the model.

\* The most keys a caller puts in the options dict handed to the builder.
MaxArgs == 3

\* The most rows (genomes) of a matrix file.
MaxN == 3

\* The most cells of a matrix file that hold a missing-value marker.
MaxNA == 2

\* The most files of the input collection.
MaxGenomes == 2

-----------------------------------------------------------------------------
\* Python values and their conversions.

PyInt(n)   == [t |-> "int",   n |-> n, s |-> ""]
PyFloat(n) == [t |-> "float", n |-> n, s |-> ""]   \* n is the value in tenths
PyBool(b)  == [t |-> "bool",  n |-> IF b THEN 1 ELSE 0, s |-> ""]
PyStr(s)   == [t |-> "str",   n |-> 0, s |-> s]
PyNone     == [t |-> "none",  n |-> 0, s |-> ""]

Digit(d) == SubSeq("0123456789", d + 1, d + 1)

\* str(n) of an int: its decimal digits, after "-" if it is negative.
RECURSIVE IntStr(_)
IntStr(n) ==
    IF n < 0 THEN "-" \o IntStr(-n)
    ELSE IF n < 10 THEN Digit(n)
    ELSE IntStr(n \div 10) \o Digit(n % 10)

\* str(v), skani.py line 72: repr of a float keeps its fractional digit
\* (15.0 -> "15.0"), an int has none (0 -> "0").
Stringify(v) ==
    CASE v.t = "int"   -> IntStr(v.n)
      [] v.t = "float" -> IntStr(v.n \div 10) \o "." \o Digit(v.n % 10)
      [] v.t = "bool"  -> IF v.n = 1 THEN "True" ELSE "False"
      [] v.t = "none"  -> "None"
      [] OTHER         -> v.s

\* Python truth value: None, 0, 0.0, False and "" are false.
Truthy(v) ==
    CASE v.t = "none" -> FALSE
      [] v.t = "str"  -> v.s # ""
      [] OTHER        -> v.n # 0

\* dict operations on a sequence of [k, v] entries with distinct keys.
DictKeys(d) == {d[i].k : i \in 1..Len(d)}
DictHas(d, key) == key \in DictKeys(d)
DictGet(d, key) == d[CHOOSE i \in 1..Len(d) : d[i].k = key].v

\* "No exception", "no table", "no matrix", "no process yet".
NoError  == [type |-> "", base |-> "", msg |-> ""]
NoFrame  == [index |-> <<>>, columns |-> <<>>, values |-> <<>>]
NoMatrix == [ids |-> <<>>, data |-> <<>>]
NoProc   == [kind |-> "none", rc |-> 0, stdout |-> "", stderr |-> ""]
NoTruth  == [n |-> 0, style |-> 0, pattern |-> "", mask |-> {}, bad |-> <<0, 0>>]

\* Nothing has run: no file, no process, no result.
Idle ==
    /\ genomes = {}
    /\ fs = {}
    /\ proc = NoProc
    /\ run_error = NoError
    /\ run_count = 0
    /\ parse_count = 0
    /\ truth = NoTruth
    /\ df = NoFrame
    /\ error = NoError
    /\ result = NoMatrix

-----------------------------------------------------------------------------
\* _construct_triangle_cmd (skani.py lines 22-83).

\* lines 49-55, in declaration order (a dict iterates in insertion order).
param_with_values == <<
    [param |-> "threads",     flag |-> "-t"],
    [param |-> "min_af",      flag |-> "--min-af"],
    [param |-> "compression", flag |-> "-c"],
    [param |-> "marker_c",    flag |-> "-m"],
    [param |-> "screen",      flag |-> "-s"] >>

\* lines 57-67.
boolean_flags == <<
    [param |-> "ci",             flag |-> "--ci"],
    [param |-> "detailed",       flag |-> "--detailed"],
    [param |-> "diagonal",       flag |-> "--diagonal"],
    [param |-> "sparse",         flag |-> "--sparse"],
    [param |-> "full_matrix",    flag |-> "--full-matrix"],
    [param |-> "median",         flag |-> "--median"],
    [param |-> "no_learned_ani", flag |-> "--no-learned-ani"],
    [param |-> "robust",         flag |-> "--robust"],
    [param |-> "faster_small",   flag |-> "--faster-small"] >>

\* The slip "if skani_args.get(param)": a value of 0 would drop the option.
ValueIncluded_Truthy(args, param) ==
    DictHas(args, param) /\ Truthy(DictGet(args, param))

\* lines 70-72: "if param in skani_args" is a test of presence, not of truth.
ValueIncluded(args, param) == DictHas(args, param)

RECURSIVE AddValueParams(_, _, _)
AddValueParams(c, args, i) ==
    IF i > Len(param_with_values) THEN c
    ELSE LET p == param_with_values[i] IN
         AddValueParams(
             IF ValueIncluded(args, p.param)
             THEN c \o <<p.flag, Stringify(DictGet(args, p.param))>>
             ELSE c,
             args, i + 1)

\* The slip "if param in skani_args": a flag set to False would be emitted.
FlagIncluded_PresenceOnly(args, param) == DictHas(args, param)

\* lines 75-77.
FlagIncluded(args, param) == DictHas(args, param) /\ Truthy(DictGet(args, param))

RECURSIVE AddBooleanFlags(_, _, _)
AddBooleanFlags(c, args, i) ==
    IF i > Len(boolean_flags) THEN c
    ELSE LET p == boolean_flags[i] IN
         AddBooleanFlags(
             IF FlagIncluded(args, p.param) THEN Append(c, p.flag) ELSE c,
             args, i + 1)

\* lines 80-81.
AddPreset(c, args) ==
    IF DictHas(args, "preset") /\ Truthy(DictGet(args, "preset"))
    THEN Append(c, "--" \o Stringify(DictGet(args, "preset")))
    ELSE c

\* The slip of looping over skani_args.items() instead of over the two
\* tables: the options come out in the caller's insertion order.
RECURSIVE EmitInInsertionOrder(_, _, _)
EmitInInsertionOrder(c, args, i) ==
    IF i > Len(args) THEN c
    ELSE LET key == args[i].k
             vp == {j \in 1..Len(param_with_values) : param_with_values[j].param = key}
             bp == {j \in 1..Len(boolean_flags) : boolean_flags[j].param = key}
             c1 == IF vp # {}
                   THEN c \o <<param_with_values[CHOOSE j \in vp : TRUE].flag,
                               Stringify(args[i].v)>>
                   ELSE IF bp # {} /\ Truthy(args[i].v)
                   THEN Append(c, boolean_flags[CHOOSE j \in bp : TRUE].flag)
                   ELSE IF key = "preset" /\ Truthy(args[i].v)
                   THEN Append(c, "--" \o Stringify(args[i].v))
                   ELSE c
         IN  EmitInInsertionOrder(c1, args, i + 1)

ConstructTriangleCmd_InsertionOrder(L, O, args) ==
    EmitInInsertionOrder(
        <<"skani", "triangle", "-v", "--distance", "-l", L, "-o", O>>, args, 1)

\* lines 43-83.
ConstructTriangleCmd(L, O, args) ==
    LET c0 == <<"skani", "triangle", "-v", "--distance">>
        c1 == c0 \o <<"-l", L, "-o", O>>
        c2 == AddValueParams(c1, args, 1)
        c3 == AddBooleanFlags(c2, args, 1)
    IN  AddPreset(c3, args)

-----------------------------------------------------------------------------
\* The builder called on its own: a caller fills an options dict key by key,
\* in any order, then calls _construct_triangle_cmd once.

ValueParams == {param_with_values[i].param : i \in 1..Len(param_with_values)}
BoolParams  == {boolean_flags[i].param : i \in 1..Len(boolean_flags)}
Presets     == {"fast", "medium", "slow", "small-genomes"}   \* line 159

\* The values a caller may bind to a key (the types of lines 145-159).
ArgValues(key) ==
    CASE key \in {"threads", "compression", "marker_c"} -> {PyInt(0), PyInt(125)}
      [] key \in {"min_af", "screen"} -> {PyFloat(0), PyFloat(805)}
      [] key \in BoolParams -> {PyBool(TRUE), PyBool(FALSE)}
      [] OTHER -> {PyNone, PyStr("fast"), PyStr("small-genomes")}

ArgKeys == ValueParams \cup BoolParams \cup {"preset"}

ManifestPaths == {"genome_list.txt", "/tmp/tmpa1/genome_list.txt"}
OutputPaths   == {"/tmp/tmpa1/skani_output.tsv"}

CmdInit ==
    /\ pc = "args"
    /\ skani_args = <<>>
    /\ fasta_list = ""
    /\ output_file = ""
    /\ cmd = <<>>
    /\ Idle

\* skani_args[key] = v for a key not yet in the dict: appended last.
SetArg ==
    /\ pc = "args"
    /\ Len(skani_args) < MaxArgs
    /\ \E key \in ArgKeys \ DictKeys(skani_args) :
         \E v \in ArgValues(key) :
            skani_args' = Append(skani_args, [k |-> key, v |-> v])
    /\ UNCHANGED <<pc, fasta_list, output_file, cmd>>
    /\ UNCHANGED <<genomes, fs, truth, procVars, outVars>>

CallConstructTriangleCmd ==
    /\ pc = "args"
    /\ \E L \in ManifestPaths, O \in OutputPaths :
         /\ fasta_list' = L
         /\ output_file' = O
         /\ cmd' = ConstructTriangleCmd(L, O, skani_args)
    /\ pc' = "built"
    /\ UNCHANGED skani_args
    /\ UNCHANGED <<genomes, fs, truth, procVars, outVars>>

CmdNext == SetArg \/ CallConstructTriangleCmd

SpecCmd == CmdInit /\ [][CmdNext]_vars

-----------------------------------------------------------------------------
\* Text: searching, splitting and joining strings.

\* s[i:] of Python, for a 1-based i.
From(s, i) == SubSeq(s, i, Len(s))

StartsWith(s, prefix) ==
    Len(prefix) <= Len(s) /\ SubSeq(s, 1, Len(prefix)) = prefix

EndsWith(s, suffix) ==
    Len(suffix) <= Len(s) /\ From(s, Len(s) - Len(suffix) + 1) = suffix

\* "sub in s".
Contains(s, sub) ==
    \E i \in 1..(Len(s) - Len(sub) + 1) : SubSeq(s, i, i + Len(sub) - 1) = sub

\* The places of the one-character string ch in s.
Places(s, ch) == {i \in 1..Len(s) : SubSeq(s, i, i) = ch}

Least(S) == CHOOSE x \in S : \A y \in S : x <= y
Most(S)  == CHOOSE x \in S : \A y \in S : x >= y

\* s.split(ch): the pieces of s between the places of ch.
Split(s, ch) ==
    LET at == Places(s, ch)
        cut(k) == IF k = 0 THEN 0
                  ELSE IF k > Cardinality(at) THEN Len(s) + 1
                  ELSE CHOOSE p \in at : Cardinality({q \in at : q < p}) = k - 1
    IN  [k \in 1..(Cardinality(at) + 1) |-> SubSeq(s, cut(k - 1) + 1, cut(k) - 1)]

\* sep.join(parts).
RECURSIVE Join(_, _)
Join(parts, sep) ==
    IF Len(parts) = 0 THEN ""
    ELSE IF Len(parts) = 1 THEN parts[1]
    ELSE parts[1] \o sep \o Join(Tail(parts), sep)

-----------------------------------------------------------------------------
\* The file system: a set of [path, content].

Exists(fsys, path) == \E f \in fsys : f.path = path
ReadFile(fsys, path) == (CHOOSE f \in fsys : f.path = path).content
WriteFile(fsys, path, text) ==
    {f \in fsys : f.path # path} \cup {[path |-> path, content |-> text]}

-----------------------------------------------------------------------------
\* _process_skani_matrix (skani.py lines 118-140).

\* A cell of the table: not-a-number, a number m / 10^e, or a string.
NaN       == [kind |-> "nan", m |-> 0, e |-> 0, s |-> ""]
Num(m, e) == [kind |-> "num", m |-> m, e |-> e, s |-> ""]
Obj(s)    == [kind |-> "str", m |-> 0, e |-> 0, s |-> s]

\* read_csv's default missing-value markers (na_values unset, line 132).
NaMarkers ==
    {"", "#N/A", "#N/A N/A", "#NA", "-1.#IND", "-1.#QNAN", "-NaN", "-nan",
     "1.#IND", "1.#QNAN", "<NA>", "N/A", "NA", "NULL", "NaN", "None", "n/a",
     "nan", "null"}

IsDigits(s) == Len(s) > 0 /\ \A i \in 1..Len(s) : Places("0123456789", SubSeq(s, i, i)) # {}

\* int(s) of a string of digits.
RECURSIVE DigitsValue(_)
DigitsValue(s) ==
    IF Len(s) = 0 THEN 0
    ELSE 10 * DigitsValue(SubSeq(s, 1, Len(s) - 1))
         + (Least(Places("0123456789", From(s, Len(s)))) - 1)

\* A plain decimal: digits, or digits "." digits.
IsDecimal(s) ==
    LET dots == Places(s, ".") IN
    \/ IsDigits(s)
    \/ /\ Cardinality(dots) = 1
       /\ IsDigits(SubSeq(s, 1, Least(dots) - 1))
       /\ IsDigits(From(s, Least(dots) + 1))

\* m / 10^e with no trailing zero in the fraction: 0.10 and 0.1 are one number.
RECURSIVE Normal(_, _)
Normal(m, e) == IF e > 0 /\ m % 10 = 0 THEN Normal(m \div 10, e - 1) ELSE Num(m, e)

\* float(s) of a plain decimal.
DecimalValue(s) ==
    LET dots == Places(s, ".") IN
    IF dots = {} THEN Num(DigitsValue(s), 0)
    ELSE LET whole == SubSeq(s, 1, Least(dots) - 1)
             frac  == From(s, Least(dots) + 1)
         IN  Normal(DigitsValue(whole \o frac), Len(frac))

\* The slip of filling missing values in: a marker reads as zero.
ParseField_NaAsZero(s) ==
    IF s \in NaMarkers THEN Num(0, 0)
    ELSE IF IsDecimal(s) THEN DecimalValue(s)
    ELSE Obj(s)

\* One field of a column that converts to numbers.
ParseField(s) ==
    IF s \in NaMarkers THEN NaN
    ELSE IF IsDecimal(s) THEN DecimalValue(s)
    ELSE Obj(s)

\* A column: numbers and NaN if every field is a number or a marker; else
\* the column keeps its fields as strings (markers still become NaN).
ParseColumn(fields) ==
    IF \A i \in 1..Len(fields) : ParseField(fields[i]).kind # "str"
    THEN [i \in 1..Len(fields) |-> ParseField(fields[i])]
    ELSE [i \in 1..Len(fields) |->
             IF fields[i] \in NaMarkers THEN NaN ELSE Obj(fields[i])]

\* The lines of a text; a final newline ends the last line, it starts none.
TextLines(text) ==
    LET parts == Split(text, "\n") IN
    IF parts[Len(parts)] = "" THEN SubSeq(parts, 1, Len(parts) - 1) ELSE parts

\* The lines that are not empty, in order.
RECURSIVE NonBlank(_)
NonBlank(lines) ==
    IF Len(lines) = 0 THEN <<>>
    ELSE (IF lines[1] # "" THEN <<lines[1]>> ELSE <<>>) \o NonBlank(Tail(lines))

\* The slip of leaving skiprows out: the count header is read as a row.
DataLines_NoSkip(text) == NonBlank(TextLines(text))

\* skiprows=1: the first line is dropped, whatever it holds; blank lines are
\* skipped (skip_blank_lines defaults to True).
DataLines(text) ==
    IF Len(TextLines(text)) = 0 THEN <<>> ELSE NonBlank(Tail(TextLines(text)))

\* The first row with more fields than the first data row (0: none). The
\* tokenizer takes the width of the table from the first row it reads.
FirstLongRow(rows) ==
    LET long == {i \in 1..Len(rows) : Len(rows[i]) > Len(rows[1])} IN
    IF long = {} THEN 0 ELSE Least(long)

\* A row with fewer fields than the table is filled with empty fields, which
\* are missing values.
PadRow(row, width) == [j \in 1..width |-> IF j <= Len(row) THEN row[j] ELSE ""]

\* pathlib's Path(x).name: the last component, whatever slashes end the path.
RECURSIVE PathName(_)
PathName(path) ==
    IF Len(path) > 1 /\ EndsWith(path, "/") THEN PathName(SubSeq(path, 1, Len(path) - 1))
    ELSE IF Places(path, "/") = {} THEN path
    ELSE From(path, Most(Places(path, "/")) + 1)

\* The file name with its suffix kept (Path.name in place of Path.stem).
PathStem_KeepSuffix(path) == PathName(path)

\* Path(x).stem (line 133): the name up to its last dot, unless that dot is
\* the first or the last character.
PathStem(path) ==
    LET name == PathName(path)
        dots == Places(name, ".")
    IN  IF dots # {} /\ Most(dots) > 1 /\ Most(dots) < Len(name)
        THEN SubSeq(name, 1, Most(dots) - 1)
        ELSE name

ErrorOf(type, base, msg) == [type |-> type, base |-> base, msg |-> msg]
Raised(err)  == [err |-> err, df |-> NoFrame]
Returned(d)  == [err |-> NoError, df |-> d]

\* lines 132-140: read_csv(sep="\t", index_col=0, skiprows=1, header=None),
\* the index mapped to stems, the columns named after the index.
ProcessSkaniMatrix(fsys, matrix_file) ==
    IF ~Exists(fsys, matrix_file)
    THEN Raised(ErrorOf("FileNotFoundError", "OSError",
             "[Errno 2] No such file or directory: '" \o matrix_file \o "'"))
    ELSE
    LET lines == DataLines(ReadFile(fsys, matrix_file))
        rows  == [i \in 1..Len(lines) |-> Split(lines[i], "\t")]
    IN
    IF Len(lines) = 0
    THEN Raised(ErrorOf("EmptyDataError", "ValueError",
             "No columns to parse from file"))
    ELSE IF FirstLongRow(rows) # 0
    THEN Raised(ErrorOf("ParserError", "ValueError",
             "Error tokenizing data. C error: Expected "
             \o IntStr(Len(rows[1])) \o " fields in line "
             \o IntStr(FirstLongRow(rows) + 1) \o ", saw "
             \o IntStr(Len(rows[FirstLongRow(rows)]))))
    ELSE
    LET width  == Len(rows[1])
        n      == Len(rows)
        padded == [i \in 1..n |-> PadRow(rows[i], width)]
        index  == ParseColumn([i \in 1..n |-> padded[i][1]])
        cols   == [j \in 1..(width - 1) |->
                      ParseColumn([i \in 1..n |-> padded[i][j + 1]])]
        values == [i \in 1..n |-> [j \in 1..(width - 1) |-> cols[j][i]]]
        bad    == {i \in 1..n : index[i].kind # "str"}
    IN
    IF bad # {}
    THEN Raised(ErrorOf("TypeError", "TypeError",
             "expected str, bytes or os.PathLike object, not "
             \o (IF \A i \in 1..n : IsDigits(padded[i][1])
                 THEN "int" ELSE "float")))
    ELSE
    LET labels == [i \in 1..n |-> PathStem(index[i].s)] IN
    IF n # width - 1
    THEN Raised(ErrorOf("ValueError", "ValueError",
             "Length mismatch: Expected axis has " \o IntStr(width - 1)
             \o " elements, new values have " \o IntStr(n) \o " elements"))
    ELSE Returned([index |-> labels, columns |-> labels, values |-> values])

-----------------------------------------------------------------------------
\* The matrix file the tool writes: a count line, then one line per genome,
\* its path and its values separated by tabs.

\* How the tool was given its genomes (directory, name, extension) and what
\* it was asked to write.  In a "shared" style every genome has the same file
\* name and a directory of its own (/batch1/g1.fasta, /batch2/g1.fasta).
PathStyles == <<
    [dir |-> "/data/mags/", stem |-> "genome", ext |-> ".fasta", pattern |-> "sym",
     shared |-> FALSE],
    [dir |-> "",            stem |-> "mag.v",  ext |-> ".fa",    pattern |-> "asym",
     shared |-> FALSE],
    [dir |-> "/run.1/",     stem |-> "bin",    ext |-> "",       pattern |-> "sym",
     shared |-> FALSE],
    [dir |-> "/batch",      stem |-> "g1",     ext |-> ".fasta", pattern |-> "sym",
     shared |-> TRUE] >>

\* The identifier and the path of the genome of row i.
GenomeId(t, i) ==
    IF PathStyles[t.style].shared THEN PathStyles[t.style].stem
    ELSE PathStyles[t.style].stem \o IntStr(i)
GenomePath(t, i) ==
    PathStyles[t.style].dir
    \o (IF PathStyles[t.style].shared THEN IntStr(i) \o "/" ELSE "")
    \o GenomeId(t, i) \o PathStyles[t.style].ext

\* The value of the pair (i, j), in tenths: "sym" is a distance matrix (zero
\* diagonal, symmetric), "asym" has a different value in every cell.
PairValue(t, i, j) ==
    IF t.pattern = "sym"
    THEN (IF i = j THEN 0 ELSE i * j - 1)
    ELSE 10 * i + j

\* A value in tenths as the tool prints it: one decimal ("0.1") for "sym",
\* two ("1.20") for "asym".
ValueText(t, v) ==
    IntStr(v \div 10) \o "." \o Digit(v % 10) \o (IF t.pattern = "sym" THEN "" ELSE "0")

NaMarker == "NA"

CellText(t, i, j) ==
    IF <<i, j>> \in t.mask THEN NaMarker
    ELSE IF j > t.n THEN ValueText(t, 0)
    ELSE ValueText(t, PairValue(t, i, j))

\* The number of value columns of row i: n, but for the one bad row.
RowWidth(t, i) == IF t.bad[1] = i THEN t.n + t.bad[2] ELSE t.n

RowText(t, i) ==
    Join(<<GenomePath(t, i)>> \o [j \in 1..RowWidth(t, i) |-> CellText(t, i, j)], "\t")

FormatMatrix(t) ==
    IntStr(t.n) \o "\n" \o Join([i \in 1..t.n |-> RowText(t, i)], "\n") \o "\n"

Cells(n) == (1..n) \X (1..n)

\* The sets of at most k cells of an n x n matrix.
RECURSIVE Masks(_, _)
Masks(n, k) ==
    IF k = 0 THEN {{}}
    ELSE LET fewer == Masks(n, k - 1) IN
         fewer \cup {mk \cup {c} : mk \in fewer, c \in Cells(n)}

\* Every matrix of up to MaxN genomes with up to MaxNA missing values and at
\* most one row that is one value short or one value long.
Truths ==
    UNION {
        {[n |-> n, style |-> st, pattern |-> PathStyles[st].pattern,
          mask |-> mk, bad |-> bd] :
            st \in 1..Len(PathStyles),
            mk \in Masks(n, MaxNA), bd \in {<<0, 0>>} \cup ((1..n) \X {-1, 1})}
        : n \in 1..MaxN }

MatrixPath == "/tmp/tmpa1/skani_output.tsv"

\* _process_skani_matrix called on its own, on a file of the tool's.
MatrixInit ==
    /\ pc = "file"
    /\ truth \in Truths
    /\ fs = {[path |-> MatrixPath, content |-> FormatMatrix(truth)]}
    /\ skani_args = <<>>
    /\ fasta_list = ""
    /\ output_file = MatrixPath
    /\ cmd = <<>>
    /\ genomes = {}
    /\ proc = NoProc
    /\ run_error = NoError
    /\ run_count = 0
    /\ parse_count = 0
    /\ df = NoFrame
    /\ error = NoError
    /\ result = NoMatrix

CallProcessSkaniMatrix ==
    /\ pc = "file"
    /\ LET r == ProcessSkaniMatrix(fs, output_file) IN
         /\ df' = r.df
         /\ error' = r.err
    /\ parse_count' = parse_count + 1
    /\ pc' = "parsed"
    /\ UNCHANGED <<cmdVars, genomes, fs, truth, procVars, result>>

MatrixNext == CallProcessSkaniMatrix

SpecMatrix == MatrixInit /\ [][MatrixNext]_vars

-----------------------------------------------------------------------------
\* _run_skani (skani.py lines 86-115).

CommandLine(c) == Join(c, " ")

\* lines 107-114, with both blocks added whether or not there is output.
FailureMessage_BothBlocks(c, p) ==
    "Skani failed with exit code " \o IntStr(p.rc) \o ".\n"
    \o "Command: " \o CommandLine(c) \o "\n"
    \o "stdout:\n" \o p.stdout \o "\n"
    \o "stderr:\n" \o p.stderr

\* lines 107-114.
FailureMessage(c, p) ==
    "Skani failed with exit code " \o IntStr(p.rc) \o ".\n"
    \o "Command: " \o CommandLine(c) \o "\n"
    \o (IF p.stdout # "" THEN "stdout:\n" \o p.stdout \o "\n" ELSE "")
    \o (IF p.stderr # "" THEN "stderr:\n" \o p.stderr ELSE "")

\* _run_skani without check=True: a non-zero exit raises nothing.
RunSkaniError_Unchecked(c, p) ==
    IF p.kind = "oserror"
    THEN ErrorOf("FileNotFoundError", "OSError",
                 "[Errno 2] No such file or directory: 'skani'")
    ELSE NoError

\* The exception _run_skani leaves with, given what subprocess.run met:
\* check=True turns a non-zero exit into CalledProcessError, caught at line
\* 106; any other exception (the program cannot be started) is not caught.
RunSkaniError(c, p) ==
    IF p.kind = "oserror"
    THEN ErrorOf("FileNotFoundError", "OSError",
                 "[Errno 2] No such file or directory: 'skani'")
    ELSE IF p.rc # 0
    THEN ErrorOf("RuntimeError", "RuntimeError", FailureMessage(c, p))
    ELSE NoError

-----------------------------------------------------------------------------
\* skbio.DistanceMatrix(df.values, ids=df.index.tolist()) (skani.py line 242).

\* np.asarray(data, dtype=float): a string that spells a number converts.
AsFloat(cell) ==
    IF cell.kind = "str" /\ IsDecimal(cell.s) THEN DecimalValue(cell.s) ELSE cell

MakeDistanceMatrix(d) ==
    LET n    == Len(d.index)
        data == [i \in 1..n |-> [j \in 1..n |-> AsFloat(d.values[i][j])]]
    IN
    IF \E i, j \in 1..n : data[i][j].kind = "str"
    THEN [err |-> ErrorOf("ValueError", "ValueError",
                          "could not convert string to float"),
          dm |-> NoMatrix]
    ELSE IF \E i \in 1..n : data[i][i] # Num(0, 0)
    THEN [err |-> ErrorOf("DissimilarityMatrixError", "Exception",
               "Data must be hollow (i.e., the diagonal can only contain zeros)."),
          dm |-> NoMatrix]
    ELSE IF \E i, j \in 1..n : i # j /\ d.index[i] = d.index[j]
    THEN [err |-> ErrorOf("DissimilarityMatrixError", "Exception",
               "IDs must be unique. Found the following duplicate IDs"),
          dm |-> NoMatrix]
    ELSE IF \E i, j \in 1..n : data[i][j].kind = "nan" \/ data[i][j] # data[j][i]
    THEN [err |-> ErrorOf("DistanceMatrixError", "Exception",
               "Data must be symmetric and cannot contain NaNs."),
          dm |-> NoMatrix]
    ELSE [err |-> NoError, dm |-> [ids |-> d.index, data |-> data]]

-----------------------------------------------------------------------------
\* compare_seqs (skani.py lines 143-242).

GenomesRoot == "/data/mags"
TempDir     == "/tmp/tmpa1"

\* What an input collection may hold.
CollectionFiles == {"genome1.fasta", "sub/genome2.fasta", "genome3.fa", "readme.txt"}

\* glob(genomes.path / "**" / "*.fasta", recursive=True), line 219.
IsFasta(file) == EndsWith(PathName(file), ".fasta")
GlobFasta(files) == {GenomesRoot \o "/" \o f : f \in {g \in files : IsFasta(g)}}

\* The orders in which glob may yield a set of paths.
Orders(S) ==
    {q \in [1..Cardinality(S) -> S] : \A i, j \in 1..Cardinality(S) : i # j => q[i] # q[j]}

\* lines 218-220: one path per line.
RECURSIVE ManifestText(_)
ManifestText(paths) ==
    IF Len(paths) = 0 THEN "" ELSE paths[1] \o "\n" \o ManifestText(Tail(paths))

\* lines 204-211: locals() without "genomes", in the order of the signature.
Locals(threads, full_matrix, preset) == <<
    [k |-> "threads",        v |-> PyInt(threads)],
    [k |-> "min_af",         v |-> PyFloat(150)],
    [k |-> "compression",    v |-> PyInt(125)],
    [k |-> "marker_c",       v |-> PyInt(1000)],
    [k |-> "screen",         v |-> PyFloat(800)],
    [k |-> "ci",             v |-> PyBool(FALSE)],
    [k |-> "detailed",       v |-> PyBool(FALSE)],
    [k |-> "diagonal",       v |-> PyBool(FALSE)],
    [k |-> "sparse",         v |-> PyBool(FALSE)],
    [k |-> "full_matrix",    v |-> PyBool(full_matrix)],
    [k |-> "median",         v |-> PyBool(FALSE)],
    [k |-> "no_learned_ani", v |-> PyBool(FALSE)],
    [k |-> "robust",         v |-> PyBool(FALSE)],
    [k |-> "faster_small",   v |-> PyBool(FALSE)],
    [k |-> "preset",         v |-> preset] >>

UnderTempDir(path) == path = TempDir \/ StartsWith(path, TempDir \o "/")

\* Leaving the with block while keeping what the tool wrote: only the
\* manifest and the directory entry go.
ExitTempDir_LeavesOutput(fsys) ==
    {f \in fsys : f.path # TempDir /\ f.path # TempDir \o "/genome_list.txt"}

\* TemporaryDirectory.__exit__ (line 214): the directory and all under it go.
ExitTempDir(fsys) == {f \in fsys : ~UnderTempDir(f.path)}

\* The wrapper's message without the cause.
WrappedMessage_NoCause(e, c) ==
    "Failed to run Skani comparison\n" \o "Command: " \o CommandLine(c)

\* lines 235-238.
WrappedMessage(e, c) ==
    "Failed to run Skani comparison: " \o e.msg \o "\n"
    \o "Command: " \o CommandLine(c)

\* What subprocess.run may meet: the program cannot be started, or it exits.
ExitCodes == {0, 1, -9}
ProcOutcomes ==
    {[kind |-> "oserror", rc |-> 0, stdout |-> "", stderr |-> ""]}
    \cup {[kind |-> "exit", rc |-> rc, stdout |-> so, stderr |-> se] :
             rc \in ExitCodes, so \in {"", "3 genomes"}, se \in {"", "boom"}}

\* What the tool may leave at the output path: nothing, or a matrix file.
ToolTruths ==
    {NoTruth} \cup
    {[n |-> n, style |-> 1, pattern |-> "sym", mask |-> mk, bad |-> bd] :
        n \in {3}, mk \in {{}, {<<1, 2>>, <<2, 1>>}},
        bd \in {<<0, 0>>, <<2, -1>>, <<2, 1>>}}
    \cup {[n |-> 2, style |-> 2, pattern |-> "asym", mask |-> {}, bad |-> <<0, 0>>],
          [n |-> 2, style |-> 4, pattern |-> "sym",  mask |-> {}, bad |-> <<0, 0>>]}

Init ==
    /\ pc = "idle"
    /\ genomes \in {g \in SUBSET CollectionFiles : Cardinality(g) <= MaxGenomes}
    /\ skani_args = <<>>
    /\ fasta_list = ""
    /\ output_file = ""
    /\ cmd = <<>>
    /\ fs = {}
    /\ proc = NoProc
    /\ run_error = NoError
    /\ run_count = 0
    /\ parse_count = 0
    /\ truth = NoTruth
    /\ df = NoFrame
    /\ error = NoError
    /\ result = NoMatrix

\* lines 204-216: the options are collected, the temporary directory made.
Call ==
    /\ pc = "idle"
    /\ \E threads \in {1, 3}, full_matrix \in BOOLEAN,
          preset \in {PyNone, PyStr("fast")} :
         skani_args' = Locals(threads, full_matrix, preset)
    /\ fs' = WriteFile(fs, TempDir, "<dir>")
    /\ fasta_list' = TempDir \o "/genome_list.txt"
    /\ pc' = "in_tempdir"
    /\ UNCHANGED <<output_file, cmd, genomes, truth, procVars, outVars>>

\* lines 217-220: the manifest is written and closed.
WriteManifest ==
    /\ pc = "in_tempdir"
    /\ \E paths \in Orders(GlobFasta(genomes)) :
         fs' = WriteFile(fs, fasta_list, ManifestText(paths))
    /\ pc' = "manifest_written"
    /\ UNCHANGED <<cmdVars, genomes, truth, procVars, outVars>>

\* lines 223-230.
BuildCmd ==
    /\ pc = "manifest_written"
    /\ output_file' = TempDir \o "/skani_output.tsv"
    /\ cmd' = ConstructTriangleCmd(fasta_list, output_file', skani_args)
    /\ pc' = "cmd_built"
    /\ UNCHANGED <<skani_args, fasta_list, genomes, fs, truth, procVars, outVars>>

\* line 233, _run_skani: the child runs to its end; it may have written the
\* output file.
RunSkani ==
    /\ pc = "cmd_built"
    /\ \E p \in ProcOutcomes, t \in ToolTruths :
         /\ proc' = p
         /\ run_error' = RunSkaniError(cmd, p)
         /\ truth' = (IF p.kind = "oserror" THEN NoTruth ELSE t)
         /\ fs' = (IF p.kind = "oserror" \/ t = NoTruth THEN fs
                   ELSE WriteFile(fs, output_file, FormatMatrix(t)))
    /\ run_count' = run_count + 1
    /\ pc' = "ran"
    /\ UNCHANGED <<cmdVars, genomes, outVars>>

\* lines 234-238: the failure is wrapped and raised; the with block is left.
WrapRunFailure ==
    /\ pc = "ran"
    /\ run_error # NoError
    /\ error' = ErrorOf("RuntimeError", "RuntimeError", WrappedMessage(run_error, cmd))
    /\ fs' = ExitTempDir(fs)
    /\ pc' = "raised"
    /\ UNCHANGED <<cmdVars, genomes, truth, procVars, df, result, parse_count>>

\* line 241, the parser returning a table.
ProcessMatrixReturns ==
    /\ pc = "ran"
    /\ run_error = NoError
    /\ ProcessSkaniMatrix(fs, output_file).err = NoError
    /\ df' = ProcessSkaniMatrix(fs, output_file).df
    /\ parse_count' = parse_count + 1
    /\ pc' = "have_df"
    /\ UNCHANGED <<cmdVars, genomes, fs, truth, procVars, error, result>>

\* line 241, the parser raising: the exception leaves the with block.
ProcessMatrixRaises ==
    /\ pc = "ran"
    /\ run_error = NoError
    /\ ProcessSkaniMatrix(fs, output_file).err # NoError
    /\ error' = ProcessSkaniMatrix(fs, output_file).err
    /\ parse_count' = parse_count + 1
    /\ fs' = ExitTempDir(fs)
    /\ pc' = "raised"
    /\ UNCHANGED <<cmdVars, genomes, truth, procVars, df, result>>

\* line 242: the matrix is built and returned; the with block is left.
ReturnMatrix ==
    /\ pc = "have_df"
    /\ MakeDistanceMatrix(df).err = NoError
    /\ result' = MakeDistanceMatrix(df).dm
    /\ fs' = ExitTempDir(fs)
    /\ pc' = "returned"
    /\ UNCHANGED <<cmdVars, genomes, truth, procVars, df, error, parse_count>>

\* line 242, the constructor refusing the table.
DistanceMatrixRaises ==
    /\ pc = "have_df"
    /\ MakeDistanceMatrix(df).err # NoError
    /\ error' = MakeDistanceMatrix(df).err
    /\ fs' = ExitTempDir(fs)
    /\ pc' = "raised"
    /\ UNCHANGED <<cmdVars, genomes, truth, procVars, df, result, parse_count>>

Next ==
    \/ Call
    \/ WriteManifest
    \/ BuildCmd
    \/ RunSkani
    \/ WrapRunFailure
    \/ ProcessMatrixReturns
    \/ ProcessMatrixRaises
    \/ ReturnMatrix
    \/ DistanceMatrixRaises

Spec == Init /\ [][Next]_vars

-----------------------------------------------------------------------------
\* Claims about compare_seqs and _run_skani, checked under Spec.

Finished == pc \in {"returned", "raised"}

NoFastaFiles == \A f \in genomes : ~IsFasta(f)

\* C1: called on a collection with no *.fasta file, compare_seqs raises
\* RuntimeError("No FASTA files found") and subprocess.run is never called.
C1_NoFastaNoInvocation ==
    (NoFastaFiles /\ pc # "idle") =>
        /\ run_count = 0
        /\ Finished => /\ pc = "raised"
                       /\ error.type = "RuntimeError"
                       /\ Contains(error.msg, "No FASTA files found")

\* C5: after _run_skani, an exit code of zero has raised nothing; a non-zero
\* one has raised an error whose message holds the exit code and the command
\* joined by spaces, holds "stdout:" and the captured stdout exactly when
\* stdout is not empty, and "stderr:" and the captured stderr exactly when
\* stderr is not empty (exit code 1 with stderr "boom": "1" and "boom").
C5_RunnerOutcome ==
    proc.kind = "exit" =>
        IF proc.rc = 0 THEN run_error = NoError
        ELSE /\ run_error.type = "RuntimeError"
             /\ Contains(run_error.msg, "exit code " \o IntStr(proc.rc) \o ".")
             /\ Contains(run_error.msg, CommandLine(cmd))
             /\ IF proc.stdout # ""
                THEN Contains(run_error.msg, "stdout:\n" \o proc.stdout)
                ELSE ~Contains(run_error.msg, "stdout:")
             /\ IF proc.stderr # ""
                THEN Contains(run_error.msg, "stderr:\n" \o proc.stderr)
                ELSE ~Contains(run_error.msg, "stderr:")
             /\ (proc.rc = 1 /\ proc.stderr = "boom") =>
                    Contains(run_error.msg, "1") /\ Contains(run_error.msg, "boom")

\* C5 witness: the child has exited with code 1, stderr "boom", no stdout.
C5_Witness ==
    /\ pc = "ran"
    /\ proc = [kind |-> "exit", rc |-> 1, stdout |-> "", stderr |-> "boom"]
    /\ Contains(run_error.msg, "stderr:\nboom")

\* C6: once the runner has failed (a non-zero exit or any other exception),
\* the parser is not called and no matrix is returned; the call ends raising
\* a RuntimeError whose message holds the text of the failure and the command
\* joined by spaces.
C6_RunFailureIsWrapped ==
    run_error # NoError =>
        /\ pc \in {"ran", "raised"}
        /\ parse_count = 0
        /\ df = NoFrame
        /\ result = NoMatrix
        /\ pc = "raised" =>
              /\ error.type = "RuntimeError"
              /\ Contains(error.msg, run_error.msg)
              /\ Contains(error.msg, CommandLine(cmd))

\* C6 witness: the program could not be started and the call has raised.
C6_Witness ==
    /\ pc = "raised"
    /\ proc.kind = "oserror"
    /\ Contains(error.msg, "No such file or directory: 'skani'")

\* C7: once compare_seqs has returned or raised, the temporary directory, the
\* manifest and the output file are gone; until then the directory is there.
C7_TempDirRemoved ==
    /\ Finished => \A f \in fs : ~UnderTempDir(f.path)
    /\ (pc \notin {"idle", "returned", "raised"}) => Exists(fs, TempDir)

\* C7 witness: the tool wrote a file the parser refused, and the call raised.
C7_Witness ==
    /\ pc = "raised"
    /\ run_error = NoError
    /\ error.type = "ParserError"
    /\ truth # NoTruth
    /\ fs = {}

-----------------------------------------------------------------------------
\* Claims about _construct_triangle_cmd, checked under SpecCmd.

\* The options dict as a mapping, without its insertion order.
ArgMap(d) == [key \in DictKeys(d) |-> DictGet(d, key)]

RefValue(m, key, flag) ==
    IF key \in DOMAIN m THEN <<flag, Stringify(m[key])>> ELSE <<>>

RefBool(m, key, flag) ==
    IF key \in DOMAIN m /\ m[key] = PyBool(TRUE) THEN <<flag>> ELSE <<>>

RefPreset(m) ==
    IF "preset" \in DOMAIN m /\ m["preset"].t = "str"
    THEN <<"--" \o m["preset"].s>> ELSE <<>>

\* The reference sequence of claim C2, a function of (L, O, mapping) only.
RefCmd(L, O, m) ==
    <<"skani", "triangle", "-v", "--distance", "-l", L, "-o", O>>
    \o RefValue(m, "threads", "-t")
    \o RefValue(m, "min_af", "--min-af")
    \o RefValue(m, "compression", "-c")
    \o RefValue(m, "marker_c", "-m")
    \o RefValue(m, "screen", "-s")
    \o RefBool(m, "ci", "--ci")
    \o RefBool(m, "detailed", "--detailed")
    \o RefBool(m, "diagonal", "--diagonal")
    \o RefBool(m, "sparse", "--sparse")
    \o RefBool(m, "full_matrix", "--full-matrix")
    \o RefBool(m, "median", "--median")
    \o RefBool(m, "no_learned_ani", "--no-learned-ani")
    \o RefBool(m, "robust", "--robust")
    \o RefBool(m, "faster_small", "--faster-small")
    \o RefPreset(m)

\* C2: the command built equals the reference sequence (fixed head, then the
\* present value options in the order -t, --min-af, -c, -m, -s, then the true
\* boolean flags in declaration order, then "--<preset>" last); the reference
\* reads the options as an unordered mapping, so the result does not depend
\* on the insertion order of the keys.
C2_CmdEqualsReference ==
    pc = "built" =>
        cmd = RefCmd(fasta_list, output_file, ArgMap(skani_args))

\* C2 witness: a dict filled against the canonical order (preset first, then
\* a true boolean flag, then a value option) has been built.
C2_Witness ==
    /\ pc = "built"
    /\ Len(skani_args) = 3
    /\ skani_args[1] = [k |-> "preset", v |-> PyStr("fast")]
    /\ skani_args[2] = [k |-> "robust", v |-> PyBool(TRUE)]
    /\ skani_args[3] = [k |-> "screen", v |-> PyFloat(805)]
    /\ cmd[Len(cmd)] = "--fast"

Positions(c, token) == {j \in 1..Len(c) : c[j] = token}

BoolFlagTokens == {boolean_flags[i].flag : i \in 1..Len(boolean_flags)}

\* The tokens that may stand after a boolean flag: another boolean flag or
\* the preset token, never a value.
NoValueAfter(c, j) ==
    \/ j = Len(c)
    \/ c[j + 1] \in BoolFlagTokens \ {c[j]}
    \/ /\ j + 1 = Len(c)
       /\ c[j + 1] \in {"--" \o p : p \in Presets}

\* C3: a boolean flag that is absent or false has no token in the command;
\* one that is true has its token exactly once, with no value after it.
C3_BooleanFlags ==
    pc = "built" =>
        \A i \in 1..Len(boolean_flags) :
            LET p == boolean_flags[i]
                on == /\ DictHas(skani_args, p.param)
                      /\ DictGet(skani_args, p.param) = PyBool(TRUE)
            IN  IF on
                THEN /\ Cardinality(Positions(cmd, p.flag)) = 1
                     /\ \A j \in Positions(cmd, p.flag) : NoValueAfter(cmd, j)
                ELSE Positions(cmd, p.flag) = {}

\* C3 witness: a command built from a dict holding a true and a false flag.
C3_Witness ==
    /\ pc = "built"
    /\ DictHas(skani_args, "ci") /\ DictGet(skani_args, "ci") = PyBool(FALSE)
    /\ DictHas(skani_args, "median") /\ DictGet(skani_args, "median") = PyBool(TRUE)
    /\ ~DictHas(skani_args, "sparse")
    /\ Positions(cmd, "--median") # {}

\* What str() gives for the values of ArgValues, written out.
ExpectedText(v) ==
    CASE v = PyInt(0) -> "0"
      [] v = PyInt(125) -> "125"
      [] v = PyFloat(0) -> "0.0"
      [] v = PyFloat(805) -> "80.5"
      [] OTHER -> "?"

TrueFlags(d) == {key \in BoolParams \cap DictKeys(d) : DictGet(d, key) = PyBool(TRUE)}

PresetGiven(d) == DictHas(d, "preset") /\ DictGet(d, "preset").t = "str"

\* C4: a value option present in the dict gives its flag immediately followed
\* by the stringified value, whatever the value (0 included); an absent one
\* gives neither flag nor value: the command holds no token besides the fixed
\* eight, the pairs of the present options, the true flags and the preset.
C4_ValueOptions ==
    pc = "built" =>
        /\ \A i \in 1..Len(param_with_values) :
              LET p == param_with_values[i] IN
              IF DictHas(skani_args, p.param)
              THEN /\ Cardinality(Positions(cmd, p.flag)) = 1
                   /\ \A j \in Positions(cmd, p.flag) :
                         /\ j < Len(cmd)
                         /\ cmd[j + 1] = ExpectedText(DictGet(skani_args, p.param))
              ELSE Positions(cmd, p.flag) = {}
        /\ Len(cmd) = 8 + 2 * Cardinality(ValueParams \cap DictKeys(skani_args))
                        + Cardinality(TrueFlags(skani_args))
                        + (IF PresetGiven(skani_args) THEN 1 ELSE 0)

\* C4 witness: built with threads = 0 and min_af = 0.0 present, screen absent.
C4_Witness ==
    /\ pc = "built"
    /\ DictHas(skani_args, "threads") /\ DictGet(skani_args, "threads") = PyInt(0)
    /\ DictHas(skani_args, "min_af") /\ DictGet(skani_args, "min_af") = PyFloat(0)
    /\ ~DictHas(skani_args, "screen")
    /\ \E j \in 1..(Len(cmd) - 1) : cmd[j] = "-t" /\ cmd[j + 1] = "0"

-----------------------------------------------------------------------------
\* Claims about _process_skani_matrix, checked under SpecMatrix.

ExpectedLabels(t) == [i \in 1..t.n |-> GenomeId(t, i)]

\* The number the file holds for (i, j): v tenths, as m / 10^e.
ExpectedCell(t, i, j) ==
    IF <<i, j>> \in t.mask THEN NaN
    ELSE LET v == PairValue(t, i, j) IN
         IF v % 10 = 0 THEN Num(v \div 10, 0) ELSE Num(v, 1)

\* C8: a file of one header line and N rows of a path and N numbers parses
\* to an N x N table whose row labels and column labels are the stems of the
\* paths in row order; the header line gives no row.
C8_SquareTableWithStemLabels ==
    (pc = "parsed" /\ truth.bad = <<0, 0>> /\ truth.mask = {}) =>
        /\ error = NoError
        /\ df.index = ExpectedLabels(truth)
        /\ df.columns = ExpectedLabels(truth)
        /\ Len(df.values) = truth.n
        /\ \A i \in 1..truth.n : Len(df.values[i]) = truth.n

\* C8 witness: a 3 x 3 file of paths "mag.v<i>.fa" has been parsed.
C8_Witness ==
    /\ pc = "parsed"
    /\ truth.n = 3 /\ truth.style = 2 /\ truth.bad = <<0, 0>> /\ truth.mask = {}
    /\ df.index = <<"mag.v1", "mag.v2", "mag.v3">>

\* C9: a file in which one row has one value more or one value fewer than the
\* other rows makes the parser raise a ValueError and return no table.
C9_WrongColumnCountRaises ==
    (pc = "parsed" /\ truth.n >= 2 /\ truth.bad[2] # 0) =>
        /\ error.base = "ValueError"
        /\ df = NoFrame

-----------------------------------------------------------------------------
\* Claims about what compare_seqs returns (lines 240-242), checked under Spec.

\* The child exited with code zero.
ToolSucceeded == proc.kind = "exit" /\ proc.rc = 0

\* The file holds n rows, each a path and n numbers.
WellFormed(t) == t # NoTruth /\ t.mask = {} /\ t.bad = <<0, 0>>

\* The numbers of the file are symmetric, with zeros on the diagonal.
SymmetricHollow(t) ==
    \A i, j \in 1..t.n :
        PairValue(t, i, j) = PairValue(t, j, i) /\ PairValue(t, i, i) = 0

\* No two rows of the file have the same file name stem.
DistinctStems(t) ==
    \A i, j \in 1..t.n : i # j => GenomeId(t, i) # GenomeId(t, j)

\* The call has returned the n x n matrix of the file: the stems of the
\* leading column in row order, and every number as it was written.
ReturnedAsWritten ==
    /\ pc = "returned"
    /\ error = NoError
    /\ result.ids = ExpectedLabels(truth)
    /\ Len(result.data) = truth.n
    /\ \A i \in 1..truth.n :
          /\ Len(result.data[i]) = truth.n
          /\ \A j \in 1..truth.n : result.data[i][j] = ExpectedCell(truth, i, j)

-----------------------------------------------------------------------------
\* Claims about the order of the steps of compare_seqs, checked under Spec.

\* The manifest is on disk, closed, and lists every *.fasta file of the
\* collection, one per line.
ManifestComplete ==
    /\ Exists(fs, fasta_list)
    /\ \E paths \in Orders(GlobFasta(genomes)) :
          ReadFile(fs, fasta_list) = ManifestText(paths)

\* C12: in every step of every call, the external process is started only
\* from a state where the manifest has been completely written and no process
\* has been started before (so it runs at most once and is never retried),
\* the manifest is not written again once it is there, and the parser is
\* called only once, after the one invocation has completed with exit code
\* zero.
C12_StepOrder ==
    [][ /\ run_count' # run_count =>
              /\ run_count = 0 /\ run_count' = 1
              /\ parse_count = 0 /\ parse_count' = 0
              /\ ManifestComplete
              /\ ReadFile(fs', fasta_list) = ReadFile(fs, fasta_list)
        /\ parse_count' # parse_count =>
              /\ parse_count = 0 /\ parse_count' = 1
              /\ run_count = 1 /\ run_count' = 1
              /\ ToolSucceeded
        /\ (Exists(fs, fasta_list) /\ Exists(fs', fasta_list)) =>
              ReadFile(fs', fasta_list) = ReadFile(fs, fasta_list)
        /\ (pc = "in_tempdir" /\ pc' # pc) => run_count' = 0 /\ parse_count' = 0
      ]_vars

\* C12 witness: a call that went through every step once and returned.
C12_Witness ==
    /\ pc = "returned"
    /\ run_count = 1
    /\ parse_count = 1
    /\ ToolSucceeded
    /\ Cardinality(GlobFasta(genomes)) = 2

-----------------------------------------------------------------------------
\* Claims about rows with the same stem, checked under SpecMatrix.

\* C13: when two data rows of the file have leading paths with the same file
\* name stem (/batch1/g1.fasta and /batch2/g1.fasta), _process_skani_matrix
\* raises a parse error and returns no table.
C13_DuplicateStemsRaise ==
    (pc = "parsed" /\ truth.n >= 2 /\ ~DistinctStems(truth)) =>
        /\ error # NoError
        /\ error.base = "ValueError"
        /\ df = NoFrame

-----------------------------------------------------------------------------
\* Claims about an output file that cannot be used, checked under Spec.

\* C14: when the tool has exited with code zero and its output file is
\* missing or malformed, compare_seqs raises, returns no matrix, and the
\* message of the error holds the path of the output file.
C14_OutputErrorNamesFile ==
    (Finished /\ ToolSucceeded /\ ~WellFormed(truth)) =>
        /\ pc = "raised"
        /\ result = NoMatrix
        /\ error # NoError
        /\ Contains(error.msg, output_file)

====
